---- MODULE Spec2Model ----
(***************************************************************************)
(* CHORUS: three content-safety classifiers, a verdict extractor, a        *)
(* consensus resolver, the /analyze-* endpoints of main.py, the sqlite     *)
(* table of database.py and the two UI handlers of ui.py that touch them.  *)
(*                                                                         *)
(* Text is a sequence of pieces [t, n]: t names the piece and n is the     *)
(* number of characters of it that are present.  The pieces are a newline, *)
(* a blank, one letter, a run of 200 letters, and the two verdict markers  *)
(* in upper and in lower case.  A marker cut short by a slice keeps its    *)
(* name with a smaller n and is no longer a marker.                        *)
(***************************************************************************)
EXTENDS Naturals, Sequences, FiniteSets

\* ------------------------------------------------------------------ bounds
MaxLen == 4      \* longest provider reply, in pieces (adapter specification)
MaxRows == 1     \* rows the table may hold when a request starts (Spec)
MaxStored == 2   \* the same, in the storage specification

\* ------------------------------------------------------------- str methods
NL == "\n"
SP == " "
SAFE_MARKER == "VERDICT: SAFE"
UNSAFE_MARKER == "VERDICT: UNSAFE"
safe_lower == "verdict: safe"
unsafe_lower == "verdict: unsafe"
Letter == "x"
Block == "x*200"

SliceLen == 200

PieceLen(t) ==
    CASE t = SAFE_MARKER -> 13
      [] t = safe_lower -> 13
      [] t = UNSAFE_MARKER -> 15
      [] t = unsafe_lower -> 15
      [] t = Block -> 200
      [] OTHER -> 1

Piece(t) == [t |-> t, n |-> PieceLen(t)]

Str(ts) == [i \in 1..Len(ts) |-> Piece(ts[i])]

IsSpace(p) == p.t \in {NL, SP}

\* str.upper(), piece by piece
UpperName(t) ==
    CASE t = safe_lower -> SAFE_MARKER
      [] t = unsafe_lower -> UNSAFE_MARKER
      [] t = Letter -> "X"
      [] t = Block -> "X*200"
      [] OTHER -> t

upper(s) == [i \in 1..Len(s) |-> [t |-> UpperName(s[i].t), n |-> s[i].n]]

\* marker in line: the whole marker is present
Contains(line, marker) ==
    \E i \in 1..Len(line) : line[i].t = marker /\ line[i].n = PieceLen(marker)

RECURSIVE lstrip(_)
lstrip(s) ==
    IF s = <<>> THEN <<>>
    ELSE IF IsSpace(Head(s)) THEN lstrip(Tail(s)) ELSE s

RECURSIVE rstrip(_)
rstrip(s) ==
    IF s = <<>> THEN <<>>
    ELSE IF IsSpace(s[Len(s)]) THEN rstrip(SubSeq(s, 1, Len(s) - 1)) ELSE s

strip(s) == rstrip(lstrip(s))

\* str.split('\n'): never empty, split('') is ['']
RECURSIVE split(_)
split(s) ==
    IF \A i \in 1..Len(s) : s[i].t # NL THEN <<s>>
    ELSE LET i == CHOOSE k \in 1..Len(s) :
                      s[k].t = NL /\ \A j \in 1..(k - 1) : s[j].t # NL
         IN <<SubSeq(s, 1, i - 1)>> \o split(SubSeq(s, i + 1, Len(s)))

\* ' '.join(lines)
RECURSIVE join(_)
join(lines) ==
    IF lines = <<>> THEN <<>>
    ELSE IF Len(lines) = 1 THEN lines[1]
    ELSE lines[1] \o <<Piece(SP)>> \o join(Tail(lines))

\* s[:k], k counted in characters
RECURSIVE slice(_, _)
slice(s, k) ==
    IF s = <<>> \/ k = 0 THEN <<>>
    ELSE IF Head(s).n <= k THEN <<Head(s)>> \o slice(Tail(s), k - Head(s).n)
    ELSE <<[t |-> Head(s).t, n |-> k]>>

RECURSIVE CharLen(_)
CharLen(s) == IF s = <<>> THEN 0 ELSE Head(s).n + CharLen(Tail(s))

\* -------------------------------------------------------- verdict extractor
\* the marker is looked for in the whole reply
extract_verdict_whole_text(response_text) ==
    LET t == upper(strip(response_text))
    IN IF Contains(t, SAFE_MARKER) THEN "safe"
       ELSE IF Contains(t, UNSAFE_MARKER) THEN "unsafe"
       ELSE "unknown"

extract_verdict(response_text) ==
    LET first_line == upper(split(strip(response_text))[1])
    IN IF Contains(first_line, SAFE_MARKER) THEN "safe"
       ELSE IF Contains(first_line, UNSAFE_MARKER) THEN "unsafe"
       ELSE "unknown"

\* ------------------------------------------------------------ model adapters
Models == {"Claude", "GPT-5", "Llama"}

ModelName(m) ==
    CASE m = "Claude" -> "Claude Sonnet 4"
      [] m = "GPT-5" -> "GPT 5.2 Thinking"
      [] m = "Llama" -> "Llama 3.1 70B"

ModelResponse(name, safe, concerns, reasoning) ==
    [model_name |-> name, safe |-> safe, concerns |-> concerns,
     reasoning |-> reasoning]

ErrorReasoning == <<[t |-> "Error occurred during analysis", n |-> 30]>>

\* f'API Error: {str(e)}'
ApiError(e) == <<[t |-> "API Error: ", n |-> 11], [t |-> e, n |-> 1]>>

\* the except branch of an adapter
Fallback(m, e) ==
    [raised |-> FALSE, verdict |-> "none",
     value |-> ModelResponse(ModelName(m), FALSE, <<ApiError(e)>>, ErrorReasoning)]

\* the statements after the try block, on the reply text
AfterTry(m, response_text) ==
    LET verdict == extract_verdict(response_text)
        reasoning_lines == Tail(split(response_text))
        reasoning == strip(join(reasoning_lines))
        concerns == IF verdict = "unsafe" /\ reasoning # <<>>
                    THEN <<slice(reasoning, SliceLen)>>
                    ELSE <<>>
    IN [raised |-> FALSE, verdict |-> verdict,
        value |-> ModelResponse(ModelName(m), verdict = "safe", concerns,
                                slice(response_text, SliceLen))]

\* extract_verdict(None): None has no strip()
Raised(e) == [raised |-> TRUE, verdict |-> "none", exc |-> e]

\* What the provider call hands back:
\*   raise - client.create raises (transport, authentication, rate limit)
\*   empty - the content / choices list is empty: [0] raises IndexError
\*   notext - content[0] is a block with no text attribute (Claude)
\*   null  - message.content is None (the chat completions clients)
\*   text  - a reply text
\* the except branch answers safe
analyze_with_claude_fail_open(o) ==
    CASE o.kind = "raise" ->
           [raised |-> FALSE, verdict |-> "none",
            value |-> ModelResponse(ModelName("Claude"), TRUE, <<>>, ErrorReasoning)]
      [] o.kind = "empty" -> Fallback("Claude", "IndexError")
      [] o.kind = "notext" -> Fallback("Claude", "AttributeError")
      [] o.kind = "text" -> AfterTry("Claude", o.text)

analyze_with_claude(o) ==
    CASE o.kind = "raise" -> Fallback("Claude", o.exc)
      [] o.kind = "empty" -> Fallback("Claude", "IndexError")
      [] o.kind = "notext" -> Fallback("Claude", "AttributeError")
      [] o.kind = "text" -> AfterTry("Claude", o.text)

\* no try around the provider call
analyze_with_gpt5_no_catch(o) ==
    CASE o.kind = "raise" -> Raised(o.exc)
      [] o.kind = "empty" -> Fallback("GPT-5", "IndexError")
      [] o.kind = "null" -> Raised("AttributeError")
      [] o.kind = "text" -> AfterTry("GPT-5", o.text)

analyze_with_gpt5(o) ==
    CASE o.kind = "raise" -> Fallback("GPT-5", o.exc)
      [] o.kind = "empty" -> Fallback("GPT-5", "IndexError")
      [] o.kind = "null" -> Raised("AttributeError")
      [] o.kind = "text" -> AfterTry("GPT-5", o.text)

analyze_with_llama(o) ==
    CASE o.kind = "raise" -> Fallback("Llama", o.exc)
      [] o.kind = "empty" -> Fallback("Llama", "IndexError")
      [] o.kind = "null" -> Raised("AttributeError")
      [] o.kind = "text" -> AfterTry("Llama", o.text)

Adapter(m, o) ==
    CASE m = "Claude" -> analyze_with_claude(o)
      [] m = "GPT-5" -> analyze_with_gpt5(o)
      [] m = "Llama" -> analyze_with_llama(o)

\* -------------------------------------------------------- consensus resolver
Int(b) == IF b THEN 1 ELSE 0

\* the split case lists the models that voted safe
evaluate_consensus_lists_safe(claude_result, gpt5_result, llama_result) ==
    LET safe_votes == Int(claude_result.safe) + Int(gpt5_result.safe)
                      + Int(llama_result.safe)
        flagged_by == (IF claude_result.safe THEN <<"Claude">> ELSE <<>>)
                      \o (IF gpt5_result.safe THEN <<"GPT-5">> ELSE <<>>)
                      \o (IF llama_result.safe THEN <<"Llama">> ELSE <<>>)
    IN IF safe_votes = 3
       THEN [verdict |-> "SAFE", confidence |-> "high",
             reasoning |-> <<"All three models flagged this output as safe.">>,
             flagged_by |-> <<>>]
       ELSE IF safe_votes = 0
       THEN [verdict |-> "UNSAFE", confidence |-> "high",
             reasoning |-> <<"All three models flagged this output as unsafe">>,
             flagged_by |-> <<"Claude", "GPT-5", "Llama">>]
       ELSE [verdict |-> "REVIEW_REQUIRED", confidence |-> "uncertain",
             reasoning |-> <<Len(flagged_by), " of 3 models flagged concerns">>,
             flagged_by |-> flagged_by]

evaluate_consensus(claude_result, gpt5_result, llama_result) ==
    LET safe_votes == Int(claude_result.safe) + Int(gpt5_result.safe)
                      + Int(llama_result.safe)
        flagged_by == (IF ~claude_result.safe THEN <<"Claude">> ELSE <<>>)
                      \o (IF ~gpt5_result.safe THEN <<"GPT-5">> ELSE <<>>)
                      \o (IF ~llama_result.safe THEN <<"Llama">> ELSE <<>>)
    IN IF safe_votes = 3
       THEN [verdict |-> "SAFE", confidence |-> "high",
             reasoning |-> <<"All three models flagged this output as safe.">>,
             flagged_by |-> <<>>]
       ELSE IF safe_votes = 0
       THEN [verdict |-> "UNSAFE", confidence |-> "high",
             reasoning |-> <<"All three models flagged this output as unsafe">>,
             flagged_by |-> <<"Claude", "GPT-5", "Llama">>]
       ELSE [verdict |-> "REVIEW_REQUIRED", confidence |-> "uncertain",
             reasoning |-> <<Len(flagged_by), " of 3 models flagged concerns">>,
             flagged_by |-> flagged_by]

\* ------------------------------------------------------------------ storage
\* ', '.join(names)
RECURSIVE join_comma(_)
join_comma(names) ==
    IF names = <<>> THEN <<>>
    ELSE IF Len(names) = 1 THEN names
    ELSE <<names[1], ", ">> \o join_comma(Tail(names))

\* the row of one INSERT; id is the AUTOINCREMENT key of a table that is never
\* deleted from; the timestamp column is wall-clock time and is left out
Row(id, prompt, claude_result, gpt5_result, llama_result, cons) ==
    [id |-> id, prompt |-> prompt,
     claude_safe |-> Int(claude_result.safe),
     claude_reasoning |-> claude_result.reasoning,
     gpt5_safe |-> Int(gpt5_result.safe),
     gpt5_reasoning |-> gpt5_result.reasoning,
     llama_safe |-> Int(llama_result.safe),
     llama_reasoning |-> llama_result.reasoning,
     consensus_verdict |-> cons.verdict,
     consensus_confidence |-> cons.confidence,
     flagged_by |-> join_comma(cons.flagged_by)]

\* INSERT OR REPLACE on a fixed key: the newest row takes the last one's place
store_results_overwrite(table, prompt, claude_result, gpt5_result, llama_result, cons) ==
    IF table = <<>>
    THEN <<Row(1, prompt, claude_result, gpt5_result, llama_result, cons)>>
    ELSE [table EXCEPT ![Len(table)] =
             Row(Len(table), prompt, claude_result, gpt5_result, llama_result,
                 cons)]

store_results(table, prompt, claude_result, gpt5_result, llama_result, cons) ==
    Append(table, Row(Len(table) + 1, prompt, claude_result, gpt5_result,
                      llama_result, cons))

\* SELECT consensus_verdict, COUNT(*) ... GROUP BY consensus_verdict, as a dict
by_verdict_of(table) ==
    [v \in {table[i].consensus_verdict : i \in 1..Len(table)} |->
        Cardinality({i \in 1..Len(table) : table[i].consensus_verdict = v})]

\* -------------------------------------------------------------------- state
VARIABLES
    pc,              \* where the server's one event loop is: "idle", the model
                     \* whose provider call it is blocked in, or "store"
    endpoint,        \* the route being served
    client,          \* who sent the request: "ui" (analyze_prompt) or "api"
    content,         \* request.content
    outcome,         \* per model, what its provider call handed back
    verdict,         \* per model, the adapter's local verdict
    model_response,  \* claude_response, gpt5_response, llama_response
    consensus,       \* analyze_all_models' consensus
    rows,            \* table test_results, in id order
    response,        \* what the last request handed its caller
    ui_output,       \* the Analyze tab's output box
    ui_pc,           \* where view_stats is inside get_stats
    total,           \* get_stats' local total
    stats_output     \* the dict get_stats returned to view_stats

vars == <<pc, endpoint, client, content, outcome, verdict, model_response,
          consensus, rows, response, ui_output, ui_pc, total, stats_output>>

None == [kind |-> "none"]

ANALYZE_ALL == "/analyze-all"

Route(m) ==
    CASE m = "Claude" -> "/analyze-claude"
      [] m = "GPT-5" -> "/analyze-gpt5"
      [] m = "Llama" -> "/analyze-llama"

Init ==
    /\ pc = "idle"
    /\ endpoint = "none"
    /\ client = "none"
    /\ content = <<>>
    /\ outcome = [m \in Models |-> None]
    /\ verdict = [m \in Models |-> "none"]
    /\ model_response = [m \in Models |-> None]
    /\ consensus = None
    /\ rows = <<>>
    /\ response = None
    /\ ui_output = "none"
    /\ ui_pc = "idle"
    /\ total = 0
    /\ stats_output = None

\* ----------------------------------------------------------------- requests
\* a handler is entered and its first provider call is issued
Begin(ep, cl, c, first) ==
    /\ pc' = first
    /\ endpoint' = ep
    /\ client' = cl
    /\ content' = c
    /\ outcome' = [m \in Models |-> None]
    /\ verdict' = [m \in Models |-> "none"]
    /\ model_response' = [m \in Models |-> None]
    /\ consensus' = None
    /\ response' = None
    /\ UNCHANGED <<rows, ui_output, ui_pc, total, stats_output>>

\* POST /analyze-all
\* (the server takes a request when idle: a handler runs from its start to its
\* return with no other handler in between, because the adapters never yield)
analyze_all_models(c, bound) ==
    /\ pc = "idle"
    /\ Len(rows) < bound
    /\ Begin(ANALYZE_ALL, "api", c, "Claude")

\* POST /analyze-claude, /analyze-gpt5, /analyze-llama
analyze_content(m, c, bound) ==
    /\ pc = "idle"
    /\ Len(rows) < bound
    /\ Begin(Route(m), "api", c, m)

\* ui.analyze_prompt, when the tab is not waiting for an earlier click
analyze_prompt(prompt, bound) ==
    /\ pc = "idle" \/ client # "ui"
    /\ IF strip(prompt) = <<>>
       THEN /\ ui_output' = "Please enter a prompt to analyze."
            /\ UNCHANGED <<pc, endpoint, client, content, outcome, verdict,
                           model_response, consensus, rows, response, ui_pc,
                           total, stats_output>>
       ELSE /\ pc = "idle"
            /\ Len(rows) < bound
            /\ Begin(ANALYZE_ALL, "ui", prompt, "Claude")

\* what analyze_prompt shows once requests.post has come back
Shown(cl, out) == IF cl = "ui" THEN out ELSE ui_output

\* the provider call of model m comes back with o and the handler runs on to
\* its next provider call, to store_results, or to its return
ProviderReturns(m, o) ==
    /\ pc = m
    /\ LET r == Adapter(m, o)
       IN /\ outcome' = [outcome EXCEPT ![m] = o]
          /\ verdict' = [verdict EXCEPT ![m] = r.verdict]
          /\ IF r.raised
             THEN /\ pc' = "idle"
                  /\ response' = [kind |-> "error", exc |-> r.exc]
                  /\ ui_output' = Shown(client, "ERROR")
                  /\ UNCHANGED <<model_response, consensus>>
             ELSE /\ model_response' = [model_response EXCEPT ![m] = r.value]
                  /\ IF endpoint # ANALYZE_ALL
                     THEN /\ pc' = "idle"
                          /\ response' = [kind |-> "single", content |-> content,
                                          result |-> r.value]
                          /\ UNCHANGED <<consensus, ui_output>>
                     ELSE IF m = "Claude"
                     THEN /\ pc' = "GPT-5"
                          /\ UNCHANGED <<consensus, response, ui_output>>
                     ELSE IF m = "GPT-5"
                     THEN /\ pc' = "Llama"
                          /\ UNCHANGED <<consensus, response, ui_output>>
                     ELSE /\ pc' = "store"
                          /\ consensus' = evaluate_consensus(
                                 model_response'["Claude"],
                                 model_response'["GPT-5"],
                                 model_response'["Llama"])
                          /\ UNCHANGED <<response, ui_output>>
    /\ UNCHANGED <<endpoint, client, content, rows, ui_pc, total, stats_output>>

Bundle ==
    [kind |-> "bundle", content |-> content,
     claude |-> model_response["Claude"], gpt5 |-> model_response["GPT-5"],
     llama |-> model_response["Llama"], consensus |-> consensus]

\* store_results commits and analyze_all_models returns the bundle
StoreCommits ==
    /\ pc = "store"
    /\ rows' = store_results(rows, content, model_response["Claude"],
                             model_response["GPT-5"], model_response["Llama"],
                             consensus)
    /\ response' = Bundle
    /\ ui_output' = Shown(client, "ANALYSIS RESULTS")
    /\ pc' = "idle"
    /\ UNCHANGED <<endpoint, client, content, outcome, verdict, model_response,
                   consensus, ui_pc, total, stats_output>>

\* the error of store_results is caught and dropped
StoreRaises_swallowed ==
    /\ pc = "store"
    /\ response' = Bundle
    /\ ui_output' = Shown(client, "ANALYSIS RESULTS")
    /\ pc' = "idle"
    /\ UNCHANGED <<endpoint, client, content, outcome, verdict, model_response,
                   consensus, rows, ui_pc, total, stats_output>>

\* sqlite3 raises in connect, execute or commit (locked past TIMEOUT, disk
\* full, ...): nothing is committed and the error leaves analyze_all_models
StoreRaises ==
    /\ pc = "store"
    /\ response' = [kind |-> "error", exc |-> "sqlite3.Error"]
    /\ ui_output' = Shown(client, "ERROR")
    /\ pc' = "idle"
    /\ UNCHANGED <<endpoint, client, content, outcome, verdict, model_response,
                   consensus, rows, ui_pc, total, stats_output>>

\* ui.view_stats: get_stats' two SELECTs run in the UI process, each on the
\* table as committed at that moment
GetStatsCount ==
    /\ ui_pc = "idle"
    /\ total' = Len(rows)
    /\ ui_pc' = "counted"
    /\ UNCHANGED <<pc, endpoint, client, content, outcome, verdict,
                   model_response, consensus, rows, response, ui_output,
                   stats_output>>

GetStatsGroup ==
    /\ ui_pc = "counted"
    /\ stats_output' = [kind |-> "stats", total_tests |-> total,
                        by_verdict |-> by_verdict_of(rows)]
    /\ ui_pc' = "idle"
    /\ UNCHANGED <<pc, endpoint, client, content, outcome, verdict,
                   model_response, consensus, rows, response, ui_output, total>>

\* ------------------------------------------------------------------- inputs
RECURSIVE Seqs(_, _)
Seqs(S, n) == IF n = 0 THEN {<<>>}
              ELSE LET shorter == Seqs(S, n - 1)
                   IN shorter \cup {Append(s, x) : s \in shorter, x \in S}

Alphabet == {NL, SP, SAFE_MARKER, safe_lower, UNSAFE_MARKER, unsafe_lower,
             Letter, Block}

Replies == {Str(ts) : ts \in Seqs(Alphabet, MaxLen)}

Contents == {Str(<<>>), Str(<<SP>>), Str(<<Letter>>)}

Exceptions == {"APIConnectionError", "AuthenticationError", "RateLimitError"}

Outcomes(m, E, R) ==
    {[kind |-> "raise", exc |-> e] : e \in E}
    \cup {[kind |-> "empty"]}
    \cup (IF m = "Claude" THEN {[kind |-> "notext"]} ELSE {[kind |-> "null"]})
    \cup {[kind |-> "text", text |-> r] : r \in R}

\* the orchestrator's specification draws from a few replies
ApiReplies == {Str(<<safe_lower>>), Str(<<UNSAFE_MARKER, NL, Letter>>),
               Str(<<Letter>>)}

ApiOutcomes(m) ==
    {o \in Outcomes(m, {"APIConnectionError"}, ApiReplies) :
        o.kind \in {"raise", "null", "text"}}

StoreContents == {Str(<<SP>>), Str(<<Letter>>)}

StoreOutcomes(m) ==
    {o \in Outcomes(m, {"APIConnectionError"}, {Str(<<SAFE_MARKER>>)}) :
        o.kind \in {"raise", "text"}}

\* ----------------------------------------------------------- specifications
\* the server and the Analyze tab
Next ==
    \/ \E c \in Contents : analyze_all_models(c, MaxRows)
    \/ \E m \in Models, c \in Contents : analyze_content(m, c, MaxRows)
    \/ \E c \in Contents : analyze_prompt(c, MaxRows)
    \/ \E m \in {pc} \cap Models :
          \E o \in ApiOutcomes(m) : ProviderReturns(m, o)
    \/ StoreCommits
    \/ StoreRaises

Spec == Init /\ [][Next]_vars

\* one adapter at a time, through its single-model route, on every reply
NextAdapter ==
    \/ \E m \in Models : analyze_content(m, Str(<<Letter>>), MaxRows)
    \/ \E m \in {pc} \cap Models :
          \E o \in Outcomes(m, Exceptions, Replies) : ProviderReturns(m, o)

SpecAdapter == Init /\ [][NextAdapter]_vars

\* the server, the table and the Database Stats tab
NextStore ==
    \/ \E c \in StoreContents : analyze_all_models(c, MaxStored)
    \/ \E m \in Models, c \in StoreContents : analyze_content(m, c, MaxStored)
    \/ \E m \in {pc} \cap Models :
          \E o \in StoreOutcomes(m) : ProviderReturns(m, o)
    \/ StoreCommits
    \/ StoreRaises
    \/ GetStatsCount
    \/ GetStatsGroup

SpecStore == Init /\ [][NextStore]_vars

\* =================================================================== claims
Present(m) == model_response[m] # None

Votes == Cardinality({m \in Models : model_response[m].safe})

Elems(seq) == {seq[i] : i \in 1..Len(seq)}

\* a piece of the text is the SAFE marker, in either case
MentionsSafe(text) ==
    \E i \in 1..Len(text) :
        text[i].t \in {SAFE_MARKER, safe_lower} /\ text[i].n = 13

\* C1: an adapter's result is safe exactly when its provider call handed back a
\* text and the extractor's verdict on that text is 'safe' (a failed call or an
\* 'unknown' verdict gives safe = false), so a returned bundle says SAFE only
\* when all three providers replied with a text that carries the SAFE marker.
C1_FailClosedVote ==
    /\ \A m \in Models :
          Present(m) =>
             /\ outcome[m].kind = "text" =>
                   verdict[m] = extract_verdict(outcome[m].text)
             /\ model_response[m].safe <=>
                   (outcome[m].kind = "text" /\ verdict[m] = "safe")
             /\ (outcome[m].kind # "text" \/ verdict[m] = "unknown") =>
                   ~model_response[m].safe
    /\ (response.kind = "bundle" /\ response.consensus.verdict = "SAFE") =>
          \A m \in Models :
             outcome[m].kind = "text" /\ MentionsSafe(outcome[m].text)

C1_Witness ==
    /\ response.kind = "bundle"
    /\ outcome["Claude"].kind = "raise" /\ ~response.claude.safe
    /\ verdict["GPT-5"] = "unknown" /\ ~response.gpt5.safe
    /\ verdict["Llama"] = "safe" /\ response.llama.safe

\* C2: for every provider outcome the adapter hands back a ModelResult, and for
\* an outcome that is no text the result has safe = false, one concern and the
\* reasoning 'Error occurred during analysis'; no request ends in an error
\* raised by an adapter.
C2_AdapterNeverRaises ==
    /\ \A m \in Models :
          outcome[m] # None =>
             /\ Present(m)
             /\ outcome[m].kind # "text" =>
                   /\ ~model_response[m].safe
                   /\ Len(model_response[m].concerns) = 1
                   /\ model_response[m].reasoning = ErrorReasoning
    /\ response.kind # "error"

\* C3: the consensus follows the vote table on all 8 combinations of the three
\* safe flags, with len(dissenters) = 3 - safe votes, SAFE iff there is no
\* dissenter and UNSAFE iff all three dissent.
C3_VoteTable ==
    consensus # None =>
       LET dissenters == Elems(consensus.flagged_by)
           unsafe == {m \in Models : ~model_response[m].safe}
       IN /\ Len(consensus.flagged_by) = 3 - Votes
          /\ Cardinality(dissenters) = 3 - Votes
          /\ Votes = 3 => /\ consensus.verdict = "SAFE"
                          /\ consensus.confidence = "high"
                          /\ consensus.flagged_by = <<>>
          /\ Votes = 0 => /\ consensus.verdict = "UNSAFE"
                          /\ consensus.confidence = "high"
                          /\ dissenters = Models
          /\ Votes \in {1, 2} =>
                /\ consensus.verdict = "REVIEW_REQUIRED"
                /\ consensus.confidence = "uncertain"
                /\ dissenters = unsafe
                /\ consensus.reasoning =
                      <<3 - Votes, " of 3 models flagged concerns">>
          /\ consensus.verdict = "SAFE" <=> dissenters = {}
          /\ consensus.verdict = "UNSAFE" <=> dissenters = Models

C3_Witness ==
    /\ consensus # None
    /\ model_response["Claude"].safe
    /\ ~model_response["GPT-5"].safe
    /\ ~model_response["Llama"].safe
    /\ consensus.flagged_by = <<"GPT-5", "Llama">>

\* C4: whichever of the three provider calls raise, analyze-all goes on: each
\* call that came back, raising or with a text, leaves a result (the
\* fail-closed one for a call that raised), the three are followed by a
\* consensus, and the request ends in an error only if the append that follows
\* raises; a bundle always holds three results and their consensus; one
\* call raising and two safe replies give REVIEW_REQUIRED with the failed model
\* the only dissenter.
C4_CompleteBundle ==
    /\ (endpoint = ANALYZE_ALL
        /\ \A m \in Models : outcome[m].kind \in {"none", "raise", "text"}) =>
          /\ \A m \in Models :
                outcome[m] # None =>
                   /\ Present(m)
                   /\ model_response[m].model_name = ModelName(m)
                   /\ outcome[m].kind = "raise" =>
                         /\ ~model_response[m].safe
                         /\ model_response[m].reasoning = ErrorReasoning
          /\ response.kind = "error" => response.exc = "sqlite3.Error"
          /\ (\A m \in Models : outcome[m] # None) =>
                /\ consensus # None
                /\ pc = "store" \/ response.kind \in {"bundle", "error"}
    /\ response.kind = "bundle" =>
          /\ response.claude = model_response["Claude"] /\ Present("Claude")
          /\ response.gpt5 = model_response["GPT-5"] /\ Present("GPT-5")
          /\ response.llama = model_response["Llama"] /\ Present("Llama")
          /\ response.consensus # None
          /\ Elems(response.consensus.flagged_by) =
                {m \in Models : ~model_response[m].safe}
          /\ \A f \in Models :
                (/\ outcome[f].kind = "raise"
                 /\ \A m \in Models \ {f} : model_response[m].safe) =>
                   /\ response.consensus.verdict = "REVIEW_REQUIRED"
                   /\ response.consensus.flagged_by = <<f>>

C4_Witness ==
    /\ response.kind = "bundle"
    /\ outcome["GPT-5"].kind = "raise"
    /\ response.claude.safe /\ response.llama.safe
    /\ response.consensus.flagged_by = <<"GPT-5">>

\* the provider call of m has been issued
Started(m) == pc = m \/ outcome[m] # None

\* C5: in an analyze-all request, whenever the orchestrator waits on a provider
\* call, all three provider calls have been started.
C5_AllStartedBeforeWait ==
    (endpoint = ANALYZE_ALL /\ pc \in Models) => \A m \in Models : Started(m)

\* C6: for a request whose text is empty or all whitespace no provider call is
\* issued and nothing is persisted.
C6_BlankRejected ==
    /\ (endpoint # "none" /\ strip(content) = <<>>) =>
          /\ pc \notin Models
          /\ \A m \in Models : outcome[m] = None
    /\ \A i \in 1..Len(rows) : strip(rows[i].prompt) # <<>>

\* the state part of C7
C7_StoreStep ==
    /\ pc = "store" => /\ \A m \in Models : Present(m)
                       /\ consensus # None
    /\ (response.kind = "error" /\ response.exc = "sqlite3.Error") =>
          /\ \A m \in Models : Present(m)
          /\ consensus # None
    /\ (response.kind = "error" /\ \E m \in Models : ~Present(m)) =>
          response.exc # "sqlite3.Error"
    /\ response.kind = "bundle" =>
          /\ rows # <<>>
          /\ rows[Len(rows)].prompt = response.content
          /\ rows[Len(rows)].consensus_verdict = response.consensus.verdict

\* C7: store_results is called only once the three results and the consensus
\* exist; when it raises, the caller gets the storage error, which no adapter
\* failure produces, and no bundle; a bundle is returned only with its row
\* saved.
C7_StorageErrorSurfaced ==
    /\ []C7_StoreStep
    /\ [][(pc = "store" /\ pc' = "idle" /\ rows' = rows) =>
             (response'.kind = "error" /\ response'.exc = "sqlite3.Error")]_vars
    /\ [][rows' # rows => pc = "store"]_vars

C7_Witness ==
    /\ response.kind = "error"
    /\ response.exc = "sqlite3.Error"
    /\ consensus # None

\* the sum of f over S
RECURSIVE SumOver(_, _)
SumOver(f, S) ==
    IF S = {} THEN 0
    ELSE LET x == CHOOSE y \in S : TRUE IN f[x] + SumOver(f, S \ {x})

NameIn(line, marker) ==
    \E i \in 1..Len(line) :
        UpperName(line[i].t) = marker /\ line[i].n = PieceLen(marker)

Classify(line) ==
    IF NameIn(line, SAFE_MARKER) THEN "safe"
    ELSE IF NameIn(line, UNSAFE_MARKER) THEN "unsafe"
    ELSE "unknown"

\* the position of the first newline at or after position from, or Len + 1
LineEnd(text, from) ==
    IF \E k \in from..Len(text) : text[k].t = NL
    THEN CHOOSE k \in from..Len(text) :
            text[k].t = NL /\ \A j \in from..(k - 1) : text[j].t # NL
    ELSE Len(text) + 1

\* the position of the first piece that is no whitespace, or Len + 1
FirstInk(text) ==
    IF \E k \in 1..Len(text) : ~IsSpace(text[k])
    THEN CHOOSE k \in 1..Len(text) :
            ~IsSpace(text[k]) /\ \A j \in 1..(k - 1) : IsSpace(text[j])
    ELSE Len(text) + 1

RawFirstLine(text) == SubSeq(text, 1, LineEnd(text, 1) - 1)

VerdictLine(text) ==
    SubSeq(text, FirstInk(text), LineEnd(text, FirstInk(text)) - 1)

AfterVerdictLine(text) ==
    SubSeq(text, LineEnd(text, FirstInk(text)) + 1, Len(text))

ExpectedConcerns(text) ==
    LET joined == strip(join(split(AfterVerdictLine(text))))
    IN IF joined = <<>> THEN <<>> ELSE <<slice(joined, SliceLen)>>

\* C10: when the verdict is 'unsafe' the concerns are the lines after the
\* verdict line joined, trimmed and cut to 200 characters, as one entry, or no
\* entry when that text is empty; for 'safe' and 'unknown' there is none.
C10_ConcernAfterVerdictLine ==
    \A m \in Models :
       (outcome[m].kind = "text" /\ Present(m)) =>
          /\ Len(model_response[m].concerns) <= 1
          /\ \A i \in 1..Len(model_response[m].concerns) :
                CharLen(model_response[m].concerns[i]) <= SliceLen
          /\ verdict[m] = "unsafe" =>
                model_response[m].concerns = ExpectedConcerns(outcome[m].text)
          /\ verdict[m] \in {"safe", "unknown"} =>
                model_response[m].concerns = <<>>

====
